---- MODULE Spec2Model ----
(***************************************************************************)
(* Model of the "Fast Download" extension (src/src/extension.ts): the      *)
(* command handler extension.compress_download, its preflight (rsync       *)
(* version probe, optional install, passwordless-SSH probe), the           *)
(* destination prompt, the construction of the rsync command and the       *)
(* classification of the finished transfer.                                *)
(*                                                                         *)
(* The handler is an async function: every action below is one segment of  *)
(* it, from one await (or child_process callback) to the next.  Strings    *)
(* that the code builds by interpolation are modelled as sequences of      *)
(* string parts, so that "includes", quoting and joining are computed.     *)
(***************************************************************************)
EXTENDS Integers, Sequences, FiniteSets, TLC

\* ------------------------------ bounds ------------------------------ \*

\* Number of times the command is invoked, one invocation after the other.
MaxRuns == 1
\* Longest selection of remote files passed to the command.
MaxTargets == 2
\* Most segments of a version string given to the utility functions.
MaxSegments == 3

\* --------------------------- input domains -------------------------- \*

\* JavaScript `undefined` where a string is expected.
Undefined == "<undefined>"

\* os.platform()
Platforms == {"darwin", "linux", "win32", "freebsd"}

\* vscode.workspace.workspaceFolders?.[0]: no folder, or scheme + authority.
\* The authority is a sequence of string parts, as received (URI-encoded).
NoFolder == [scheme |-> Undefined, authority |-> <<>>]
Folders ==
    { NoFolder,
      [scheme |-> "file",          authority |-> <<>>],
      [scheme |-> "vscode-remote", authority |-> <<"ssh-remote+", "user@host">>],
      [scheme |-> "vscode-remote", authority |-> <<"ssh-remote%2B", "user@host">>],
      [scheme |-> "vscode-remote", authority |-> <<"ssh-remote+">>],
      [scheme |-> "vscode-remote", authority |-> <<"wsl+", "Ubuntu">>] }

\* fastDownload.defaultDownloadLocation
DefaultLocations == {Undefined, "", "/home/u/dl"}

\* Remote paths the user can select.
Paths == {"/a/b", "/a/c d"}

RECURSIVE SeqsUpTo(_, _)
SeqsUpTo(S, n) ==
    IF n = 0 THEN {<<>>}
    ELSE LET shorter == SeqsUpTo(S, n - 1)
         IN  shorter \cup {Append(s, x) : s \in {t \in shorter : Len(t) = n - 1}, x \in S}

\* selectedUris when the command receives a selection (possibly empty).
Selections == SeqsUpTo(Paths, MaxTargets)

\* What `rsync --version` prints: no version line, or a dotted version.
NoVersionLine == <<>>
VersionOutputs == {NoVersionLine, <<2, 6, 9>>, <<3, 0, 0>>, <<3, 2, 7>>, <<3, 1>>}

\* Answers to a Yes/No warning prompt (Undefined: dismissed).
Choices == {"Yes", "No", Undefined}

\* stderr of a failed install command.
InstallStderrs == {<<>>, <<"E: Unable to locate package rsync">>}

\* Answers to the destination input box (Undefined: cancelled).
DestinationAnswers == {Undefined, "", "/home/u/Downloads"}

\* The finished transfer process.
ExitCodes == {0, 12, 23}
TransferStdouts == {<<>>, <<"sent 10 bytes">>}
TransferStderrs ==
    { <<>>,
      <<"rsync: link_stat failed">>,
      <<"user@host: ", "Permission denied", " (publickey).">>,
      <<"Authentication failed">> }

Range(s) == {s[i] : i \in 1..Len(s)}

\* String.prototype.includes on a text held as a sequence of parts.
Includes(text, needle) == \E i \in 1..Len(text) : text[i] = needle

\* ----------------------------- state -------------------------------- \*

VARIABLES
    platform,        \* os.platform()
    folder,          \* first workspace folder
    defaultDownloadLocation,
    runs,            \* invocations of the command so far
    pc,              \* where the current invocation is waiting
    remoteName,      \* match[1]
    uriList,         \* selectedUris || [fileUri]
    rsyncOk,         \* result of checkRsyncVersion: "unset", "true", "false"
    installChoice,   \* answer to "Install it now?": "unasked" or a choice
    sshTest,         \* result of testPasswordlessSSH: "unset", "true", "false"
    sshChoice,       \* answer to "View setup instructions?"
    preflight,       \* outcome of the try/catch around withProgress
    destinationPath,
    execLog,         \* child_process.exec calls of this invocation, in order
    failed,          \* kinds of exec calls whose callback got an error
    proc,            \* the finished transfer process (exit, stdout, stderr)
    installResult,   \* the finished install command (error, stderr read on error)
    messages,        \* vscode.window.show*Message / showInputBox calls, in order
    outputChannel,   \* lines of the "Fast Download" output channel
    channelVisible,  \* outputChannel.show(true) was called
    clipboard,       \* vscode.env.clipboard
    opened,          \* vscode.env.openExternal calls
    current,         \* the invocation whose locals the variables above hold
    parked,          \* the locals of the other invocation, waiting at an await
    call             \* a direct call of compareVersions or checkRsyncVersion

envVars == <<platform, folder, defaultDownloadLocation>>
runVars == <<pc, remoteName, uriList, rsyncOk, installChoice, sshTest, sshChoice,
             preflight, destinationPath, execLog, failed, proc, installResult, messages>>
hostVars == <<outputChannel, channelVisible, clipboard, opened>>
sideVars == <<current, parked, call>>
vars == <<envVars, runs, runVars, hostVars, sideVars>>

NoProc == [done |-> FALSE, exit |-> 0, stdout |-> <<>>, stderr |-> <<>>]
NoInstall == [done |-> FALSE, error |-> FALSE, stderr |-> <<>>]

\* The locals of an invocation that has not started.
IdleRun ==
    [runs |-> 0, pc |-> "idle", remoteName |-> <<>>, uriList |-> <<>>, rsyncOk |-> "unset",
     installChoice |-> "unasked", sshTest |-> "unset", sshChoice |-> "unasked",
     preflight |-> "pending", destinationPath |-> Undefined, execLog |-> <<>>,
     failed |-> {}, proc |-> NoProc, installResult |-> NoInstall, messages |-> <<>>]

\* No direct call of a utility function.
NoCall == [fn |-> "none", v1 |-> <<>>, v2 |-> <<>>, error |-> FALSE, result |-> 0]

Init ==
    /\ platform \in Platforms
    /\ folder \in Folders
    /\ defaultDownloadLocation \in DefaultLocations
    /\ runs = 0
    /\ pc = "idle"
    /\ remoteName = <<>>
    /\ uriList = <<>>
    /\ rsyncOk = "unset"
    /\ installChoice = "unasked"
    /\ sshTest = "unset"
    /\ sshChoice = "unasked"
    /\ preflight = "pending"
    /\ destinationPath = Undefined
    /\ execLog = <<>>
    /\ failed = {}
    /\ proc = NoProc
    /\ installResult = NoInstall
    /\ messages = <<>>
    /\ outputChannel = <<>>
    /\ channelVisible = FALSE
    /\ clipboard = <<>>
    /\ opened = <<>>
    /\ current = 1
    /\ parked = IdleRun
    /\ call = NoCall

\* --------------------------- pure helpers --------------------------- \*

\* A JavaScript boolean held in a variable that starts unset.
Bool(b) == IF b THEN "true" ELSE "false"

\* Truthiness taken for "is defined": the empty string passes.
TruthyWhenDefined(s) == s # Undefined

\* JavaScript truthiness of an optional string.
Truthy(s) == s \notin {Undefined, ""}

\* compareVersions(v1, v2) on the number lists v1.split(".").map(Number).
Part(v, i) == IF i <= Len(v) THEN v[i] ELSE 0
MaxOf(a, b) == IF a >= b THEN a ELSE b

\* The loop running to the shorter list only, without the `?? 0` padding.
RECURSIVE CompareFromShortest(_, _, _)
CompareFromShortest(v1, v2, i) ==
    IF i > Len(v1) \/ i > Len(v2) THEN 0
    ELSE IF v1[i] > v2[i] THEN 1
    ELSE IF v1[i] < v2[i] THEN -1
    ELSE CompareFromShortest(v1, v2, i + 1)

RECURSIVE CompareFrom(_, _, _)
CompareFrom(v1, v2, i) ==
    IF i > MaxOf(Len(v1), Len(v2)) THEN 0
    ELSE IF Part(v1, i) > Part(v2, i) THEN 1
    ELSE IF Part(v1, i) < Part(v2, i) THEN -1
    ELSE CompareFrom(v1, v2, i + 1)

compareVersions(v1, v2) == CompareFrom(v1, v2, 1)

minRsyncVersion == <<3, 0, 0>>

\* stdout.match(/rsync\s+version\s+(\d+\.\d+\.\d+)/i): three numeric segments.
VersionMatch(version) ==
    IF Len(version) >= 3
    THEN [found |-> TRUE, group |-> SubSeq(version, 1, 3)]
    ELSE [found |-> FALSE, group |-> <<>>]

\* checkRsyncVersion accepting only versions newer than the minimum.
checkRsyncVersionStrictlyNewer(error, version, minVersion) ==
    IF error THEN FALSE
    ELSE LET versionMatch == VersionMatch(version)
         IN  IF versionMatch.found
             THEN compareVersions(versionMatch.group, minVersion) > 0
             ELSE FALSE

\* The value checkRsyncVersion resolves with.
checkRsyncVersion(error, version, minVersion) ==
    IF error THEN FALSE
    ELSE LET versionMatch == VersionMatch(version)
         IN  IF versionMatch.found
             THEN compareVersions(versionMatch.group, minVersion) >= 0
             ELSE FALSE

\* decodeURIComponent on the authority parts: %2B is the encoded '+'.
DecodePart(part) == IF part = "ssh-remote%2B" THEN "ssh-remote+" ELSE part
decodeURIComponent(authority) == [i \in 1..Len(authority) |-> DecodePart(authority[i])]

\* remoteAuthority.match(/ssh-remote\+(.+)/): the leftmost "ssh-remote+"
\* that is followed by at least one character; the group is the rest.
SshRemoteMatch(authority) ==
    LET hits == {i \in 1..Len(authority) : authority[i] = "ssh-remote+" /\ i < Len(authority)}
    IN  IF hits = {}
        THEN [found |-> FALSE, group |-> <<>>]
        ELSE LET first == CHOOSE i \in hits : \A j \in hits : i <= j
             IN  [found |-> TRUE, group |-> SubSeq(authority, first + 1, Len(authority))]

\* Commands are sequences of tokens, a token a sequence of string parts.
Quoted(parts) == <<"\"">> \o parts \o <<"\"">>

RsyncVersionCommand == [kind |-> "rsyncVersion", command |-> << <<"rsync">>, <<"--version">> >>]

\* installRsync falling back to apt-get on every platform but macOS.
InstallSupportedEverywhere(p) == TRUE

\* installRsync: the platform-specific command, or none.
InstallSupported(p) == p \in {"darwin", "linux"}
InstallCommand(p) ==
    [kind |-> "install",
     command |-> IF p = "darwin"
                 THEN << <<"brew">>, <<"install">>, <<"rsync">> >>
                 ELSE << <<"sudo">>, <<"apt-get">>, <<"install">>, <<"-y">>, <<"rsync">> >>]

\* testPasswordlessSSH: ssh -o BatchMode=yes "${remoteName}" exit
SshProbeCommand(remote) ==
    [kind |-> "sshProbe",
     command |-> << <<"ssh">>, <<"-o">>, <<"BatchMode=yes">>, Quoted(remote), <<"exit">> >>]

\* The remote files listed in reverse order of the selection.
RemoteFilesReversed(remote, uris) ==
    [i \in 1..Len(uris) |-> Quoted(remote \o <<":", uris[Len(uris) + 1 - i]>>)]

\* uriList.map(uri => `"${remoteName}:${uri.path}"`)
RemoteFiles(remote, uris) ==
    [i \in 1..Len(uris) |-> Quoted(remote \o <<":", uris[i]>>)]

\* rsync -P -avz -e "ssh -o BatchMode=yes" <remoteFiles joined by " "> "<dest>"
TransferCommand(remote, uris, dest) ==
    [kind |-> "transfer",
     command |-> << <<"rsync">>, <<"-P">>, <<"-avz">>, <<"-e">>,
                    Quoted(<<"ssh -o BatchMode=yes">>) >>
                 \o RemoteFiles(remote, uris)
                 \o << Quoted(<<dest>>) >>]

\* tokens.join(" ") as one text.
RECURSIVE Join(_)
Join(tokens) ==
    IF Len(tokens) = 0 THEN <<>>
    ELSE IF Len(tokens) = 1 THEN tokens[1]
    ELSE tokens[1] \o <<" ">> \o Join(Tail(tokens))

\* Notifications and output lines: a fixed text and the interpolated data.
Info(text, data) == [level |-> "info", text |-> text, data |-> data]
Warn(text, data) == [level |-> "warning", text |-> text, data |-> data]
Err(text, data) == [level |-> "error", text |-> text, data |-> data]
InputBox(text, data) == [level |-> "input", text |-> text, data |-> data]
\* by: the invocation that wrote the line.
Line(text, data) == [text |-> text, data |-> data, by |-> current]

FolderUri(f) == IF f = NoFolder THEN <<Undefined>> ELSE <<f.scheme, "://">> \o f.authority

\* The instruction block: copy-only when the key exists, else generate first.
Instructions(remote, keyExists) ==
    Line("SSH Key Setup Instructions",
         (IF keyExists THEN <<>> ELSE <<"ssh-keygen -t rsa -b 4096 -f ~/.ssh/id_rsa -N \"\"">>)
         \o <<"ssh-copy-id -i ~/.ssh/id_rsa.pub ">> \o remote
         \o <<"ssh ">> \o remote)


\* ------------------- shared tails of the handler -------------------- \*

\* catch (err) without its return: the handler falls through to step 5).
BlockedWithoutReturn(shown, reason) ==
    /\ messages' = Append(shown, Err("Environment check failed: ", <<reason>>))
    /\ preflight' = "Blocked"
    /\ pc' = "awaitDestination"

\* catch (err): the preflight failed with err.message = reason.
Blocked(shown, reason) ==
    /\ messages' = Append(shown, Err("Environment check failed: ", <<reason>>))
    /\ preflight' = "Blocked"
    /\ pc' = "done"

\* 4b) preceded by a second run of the rsync version probe.
StartSshProbeAfterReprobe ==
    /\ execLog' = execLog \o <<RsyncVersionCommand, SshProbeCommand(remoteName)>>
    /\ pc' = "awaitSshProbe"

\* 4b) the tool check has passed: start the passwordless-SSH probe.
StartSshProbe ==
    /\ execLog' = Append(execLog, SshProbeCommand(remoteName))
    /\ pc' = "awaitSshProbe"

\* 6), 7) build the rsync command, reset the channel and start the transfer.
\* An undefined uri (no selection and no file) makes uri.path throw, which
\* leaves the channel as the handler had it (channel).
BuildAndRun(dest, channel) ==
    IF \E i \in 1..Len(uriList) : uriList[i] = Undefined
    THEN /\ pc' = "threw"
         /\ outputChannel' = channel
         /\ UNCHANGED <<execLog, channelVisible, clipboard, opened>>
    ELSE LET remoteFiles == RemoteFiles(remoteName, uriList)
             command == TransferCommand(remoteName, uriList, dest)
         IN  /\ channelVisible' = TRUE
             /\ outputChannel' = << Line("Remote files: ", Join(remoteFiles)),
                                    Line("Running: ", Join(command.command)) >>
             /\ execLog' = Append(execLog, command)
             /\ pc' = "awaitTransfer"
             /\ UNCHANGED <<clipboard, opened>>

\* ----------------------------- actions ------------------------------ \*

\* Gate without the test for an empty list of step 3).
GateWithoutEmptyCheck(list, match) ==
    IF platform = "win32" THEN "win32"
    ELSE IF folder = NoFolder \/ folder.scheme # "vscode-remote" THEN "noRemote"
    ELSE IF ~match.found THEN "noHost"
    ELSE "pass"

\* Gate without the platform test of step 0).
GateWithoutPlatformCheck(list, match) ==
    IF folder = NoFolder \/ folder.scheme # "vscode-remote" THEN "noRemote"
    ELSE IF ~match.found THEN "noHost"
    ELSE IF Len(list) = 0 THEN "noFiles"
    ELSE "pass"

\* Steps 0) to 3): the early return the invocation takes, or "pass".
Gate(list, match) ==
    IF platform = "win32" THEN "win32"
    ELSE IF folder = NoFolder \/ folder.scheme # "vscode-remote" THEN "noRemote"
    ELSE IF ~match.found THEN "noHost"
    ELSE IF Len(list) = 0 THEN "noFiles"
    ELSE "pass"

\* choice === "Yes", with a dismissed prompt taken for consent.
ConfirmedUnlessNo(choice) == choice # "No"

\* choice === "Yes"
Confirmed(choice) == choice = "Yes"

\* The command is invoked: steps 0) to 3) and the start of the rsync probe.
Invoke(hasSelection, selectedUris, fileUri) ==
    LET list == IF hasSelection THEN selectedUris ELSE <<fileUri>>
        match == SshRemoteMatch(decodeURIComponent(folder.authority))
        gate == Gate(list, match)
    IN  /\ pc \in {"idle", "done", "threw"}
        /\ runs < MaxRuns
        /\ runs' = runs + 1
        /\ messages' =
              CASE gate = "win32" -> <<Info("Windows is not supported by Fast Download.", <<>>)>>
                [] gate = "noRemote" -> <<Err("No remote SSH workspace detected.", <<>>)>>
                [] gate = "noHost" -> <<Err("Could not determine remote host.", <<>>)>>
                [] gate = "noFiles" -> <<Err("No files to download.", <<>>)>>
                [] gate = "pass" -> <<>>
        /\ channelVisible' = (channelVisible \/ gate # "win32")
        /\ outputChannel' =
              IF gate = "win32" THEN outputChannel
              ELSE Append(outputChannel, Line("Workspace folder: ", FolderUri(folder)))
        /\ remoteName' = IF gate \in {"noFiles", "pass"} THEN match.group ELSE <<>>
        /\ uriList' = IF gate \in {"noFiles", "pass"} THEN list ELSE <<>>
        /\ execLog' = IF gate = "pass" THEN <<RsyncVersionCommand>> ELSE <<>>
        /\ pc' = IF gate = "pass" THEN "awaitRsyncProbe" ELSE "done"
        /\ rsyncOk' = "unset"
        /\ installChoice' = "unasked"
        /\ sshTest' = "unset"
        /\ sshChoice' = "unasked"
        /\ preflight' = "pending"
        /\ destinationPath' = Undefined
        /\ failed' = {}
        /\ proc' = NoProc
        /\ installResult' = NoInstall
        /\ UNCHANGED <<envVars, sideVars, clipboard, opened>>

\* The rsync probe callback installing without asking the user.
RsyncProbeCallbackAutoInstall(error, version) ==
    LET ok == checkRsyncVersion(error, version, minRsyncVersion)
    IN  /\ pc = "awaitRsyncProbe"
        /\ rsyncOk' = Bool(ok)
        /\ failed' = IF error THEN failed \cup {"rsyncVersion"} ELSE failed
        /\ IF ~ok
           THEN IF InstallSupported(platform)
                THEN /\ execLog' = Append(execLog, InstallCommand(platform))
                     /\ pc' = "awaitInstall"
                     /\ UNCHANGED <<messages, preflight, outputChannel>>
                ELSE /\ Blocked(messages, "rsync installation failed.")
                     /\ UNCHANGED <<execLog, outputChannel>>
           ELSE /\ outputChannel' = Append(outputChannel, Line("rsync is already installed.", <<>>))
                /\ StartSshProbe
                /\ UNCHANGED <<messages, preflight>>
        /\ UNCHANGED <<envVars, sideVars, installResult, runs, remoteName, uriList, installChoice, sshTest, sshChoice,
                       destinationPath, proc, channelVisible, clipboard, opened>>

\* The callback of exec("rsync --version") and the code up to the next await.
RsyncProbeCallback(error, version) ==
    LET ok == checkRsyncVersion(error, version, minRsyncVersion)
    IN  /\ pc = "awaitRsyncProbe"
        /\ rsyncOk' = Bool(ok)
        /\ failed' = IF error THEN failed \cup {"rsyncVersion"} ELSE failed
        /\ IF ~ok
           THEN /\ messages' = Append(messages,
                       Warn("rsync is missing or outdated. Install it now?", <<>>))
                /\ pc' = "awaitInstallChoice"
                /\ UNCHANGED <<execLog, outputChannel>>
           ELSE /\ outputChannel' = Append(outputChannel, Line("rsync is already installed.", <<>>))
                /\ StartSshProbe
                /\ UNCHANGED messages
        /\ UNCHANGED <<envVars, sideVars, installResult, runs, remoteName, uriList, installChoice, sshTest, sshChoice,
                       preflight, destinationPath, proc, channelVisible, clipboard, opened>>

\* The install prompt with installRsync() started but not awaited.
InstallChoiceWithoutAwait(choice) ==
    /\ pc = "awaitInstallChoice"
    /\ installChoice' = choice
    /\ IF Confirmed(choice)
       THEN IF InstallSupported(platform)
            THEN /\ execLog' = execLog \o <<InstallCommand(platform), SshProbeCommand(remoteName)>>
                 /\ pc' = "awaitSshProbe"
                 /\ UNCHANGED <<messages, preflight>>
            ELSE /\ Blocked(Append(messages,
                       Err("Unsupported OS for automatic rsync installation.", <<>>)),
                       "rsync installation failed.")
                 /\ UNCHANGED execLog
       ELSE /\ Blocked(messages, "rsync is required for Fast Download.")
            /\ UNCHANGED execLog
    /\ UNCHANGED <<envVars, sideVars, installResult, runs, remoteName, uriList, rsyncOk, sshTest,
                   sshChoice, destinationPath, failed, proc, hostVars>>

\* The user answers "Install it now?".
InstallChoice(choice) ==
    /\ pc = "awaitInstallChoice"
    /\ installChoice' = choice
    /\ IF Confirmed(choice)
       THEN IF InstallSupported(platform)
            THEN /\ execLog' = Append(execLog, InstallCommand(platform))
                 /\ pc' = "awaitInstall"
                 /\ UNCHANGED <<messages, preflight>>
            ELSE /\ Blocked(Append(messages,
                       Err("Unsupported OS for automatic rsync installation.", <<>>)),
                       "rsync installation failed.")
                 /\ UNCHANGED execLog
       ELSE /\ Blocked(messages, "rsync is required for Fast Download.")
            /\ UNCHANGED execLog
    /\ UNCHANGED <<envVars, sideVars, installResult, runs, remoteName, uriList, rsyncOk, sshTest, sshChoice,
                   destinationPath, failed, proc, hostVars>>

\* The callback of exec(installCommand).
InstallCallback(error, stderr) ==
    /\ pc = "awaitInstall"
    /\ installResult' = [done |-> TRUE, error |-> error,
                          stderr |-> IF error THEN stderr ELSE <<>>]
    /\ IF error
       THEN /\ failed' = failed \cup {"install"}
            /\ Blocked(Append(messages, Err("Failed to install rsync: ", stderr)),
                       "rsync installation failed.")
            /\ UNCHANGED execLog
       ELSE /\ messages' = Append(messages, Info("rsync installed successfully.", <<>>))
            /\ StartSshProbe
            /\ UNCHANGED <<failed, preflight>>
    /\ UNCHANGED <<envVars, sideVars, runs, remoteName, uriList, rsyncOk, installChoice, sshTest,
                   sshChoice, destinationPath, proc, hostVars>>

\* The callback of the SSH probe; when it passes, the preflight is over and
\* step 5) takes the configured destination or asks for one.
SshProbeCallback(error) ==
    /\ pc = "awaitSshProbe"
    /\ sshTest' = Bool(~error)
    /\ failed' = IF error THEN failed \cup {"sshProbe"} ELSE failed
    /\ IF error
       THEN /\ messages' = Append(messages,
                   Warn("Passwordless SSH is not configured. View setup instructions?", remoteName))
            /\ pc' = "awaitSshChoice"
            /\ UNCHANGED <<preflight, destinationPath, execLog, hostVars>>
       ELSE /\ preflight' = "Ready"
            /\ IF Truthy(defaultDownloadLocation)
               THEN /\ destinationPath' = defaultDownloadLocation
                    /\ BuildAndRun(defaultDownloadLocation, Append(outputChannel,
                           Line("Passwordless SSH is already configured.", <<>>)))
                    /\ UNCHANGED messages
               ELSE /\ messages' = Append(messages,
                           InputBox("Enter the local destination path", <<"~/Downloads">>))
                    /\ outputChannel' = Append(outputChannel,
                           Line("Passwordless SSH is already configured.", <<>>))
                    /\ pc' = "awaitDestination"
                    /\ UNCHANGED <<destinationPath, execLog, channelVisible, clipboard, opened>>
    /\ UNCHANGED <<envVars, sideVars, installResult, runs, remoteName, uriList, rsyncOk, installChoice, sshChoice, proc>>

\* The instructions prompt with the throw only on the declining branch.
SshChoiceThrowOnDeclineOnly(choice, localKeyExists) ==
    /\ pc = "awaitSshChoice"
    /\ sshChoice' = choice
    /\ IF Confirmed(choice)
       THEN LET instructions == Instructions(remoteName, localKeyExists)
            IN  /\ outputChannel' = <<instructions>>
                /\ channelVisible' = TRUE
                /\ clipboard' = instructions.data
                /\ messages' = Append(messages,
                       Info("SSH setup instructions have been posted in the output channel and copied to clipboard.", <<>>))
                /\ preflight' = "Ready"
                /\ pc' = "awaitDestination"
       ELSE /\ Blocked(messages, "Passwordless SSH is required for Fast Download.")
            /\ UNCHANGED <<outputChannel, channelVisible, clipboard>>
    /\ UNCHANGED <<envVars, sideVars, installResult, runs, remoteName, uriList, rsyncOk, installChoice, sshTest,
                   destinationPath, execLog, failed, proc, opened>>

\* The instructions prompt probing once more after the instructions are shown.
SshChoiceRetryingProbe(choice, localKeyExists) ==
    /\ pc = "awaitSshChoice"
    /\ sshChoice' = choice
    /\ IF Confirmed(choice) /\ Len(execLog) < 4
       THEN LET instructions == Instructions(remoteName, localKeyExists)
            IN  /\ outputChannel' = <<instructions>>
                /\ channelVisible' = TRUE
                /\ clipboard' = instructions.data
                /\ messages' = Append(messages,
                       Info("SSH setup instructions have been posted in the output channel and copied to clipboard.", <<>>))
                /\ execLog' = Append(execLog, SshProbeCommand(remoteName))
                /\ pc' = "awaitSshProbe"
                /\ UNCHANGED preflight
       ELSE /\ Blocked(messages, "Passwordless SSH is required for Fast Download.")
            /\ UNCHANGED <<outputChannel, channelVisible, clipboard, execLog>>
    /\ UNCHANGED <<envVars, sideVars, installResult, runs, remoteName, uriList, rsyncOk, installChoice, sshTest,
                   destinationPath, failed, proc, opened>>

\* The user answers "View setup instructions?"; localKeyExists is
\* fs.existsSync(~/.ssh/id_rsa).
SshChoice(choice, localKeyExists) ==
    /\ pc = "awaitSshChoice"
    /\ sshChoice' = choice
    /\ IF Confirmed(choice)
       THEN LET instructions == Instructions(remoteName, localKeyExists)
            IN  /\ outputChannel' = <<instructions>>
                /\ channelVisible' = TRUE
                /\ clipboard' = instructions.data
                /\ Blocked(Append(messages,
                       Info("SSH setup instructions have been posted in the output channel and copied to clipboard.", <<>>)),
                       "Passwordless SSH is required for Fast Download.")
       ELSE /\ Blocked(messages, "Passwordless SSH is required for Fast Download.")
            /\ UNCHANGED <<outputChannel, channelVisible, clipboard>>
    /\ UNCHANGED <<envVars, sideVars, installResult, runs, remoteName, uriList, rsyncOk, installChoice, sshTest,
                   destinationPath, execLog, failed, proc, opened>>

\* The user answers the destination input box.
DestinationAnswer(answer) ==
    /\ pc = "awaitDestination"
    /\ destinationPath' = answer
    /\ IF ~Truthy(answer)
       THEN /\ messages' = Append(messages, Err("No destination path provided.", <<>>))
            /\ pc' = "done"
            /\ UNCHANGED <<execLog, hostVars>>
       ELSE /\ BuildAndRun(answer, outputChannel)
            /\ UNCHANGED messages
    /\ UNCHANGED <<envVars, sideVars, installResult, runs, remoteName, uriList, rsyncOk, installChoice, sshTest,
                   sshChoice, preflight, failed, proc>>

\* exec's callback gets an error exactly when the process did not exit with 0.
ExecError(exit) == exit # 0

\* The callback's branches with the test of the exit status left out.
ClassifyWithoutExitStatus(error, stderr) ==
    IF Includes(stderr, "Permission denied") \/ Includes(stderr, "Authentication failed")
    THEN "authFailure"
    ELSE "success"

\* The branch the transfer callback takes.
Classify(error, stderr) ==
    IF error
    THEN IF Includes(stderr, "Permission denied") \/ Includes(stderr, "Authentication failed")
         THEN "authFailure"
         ELSE "genericFailure"
    ELSE "success"

\* The callback of exec(command) for the transfer.
TransferCallback(exit, stdout, stderr) ==
    LET outcome == Classify(ExecError(exit), stderr)
    IN  /\ pc = "awaitTransfer"
        /\ proc' = [done |-> TRUE, exit |-> exit, stdout |-> stdout, stderr |-> stderr]
        /\ failed' = IF ExecError(exit) THEN failed \cup {"transfer"} ELSE failed
        /\ messages' = Append(messages,
              CASE outcome = "authFailure" ->
                     Err("Passwordless SSH authentication failed. Please re-check your SSH setup.",
                         <<"Setup Guide">>)
                [] outcome = "genericFailure" -> Err("rsync failed: ", stderr)
                [] outcome = "success" ->
                     Info("Download complete. Files saved to: ", <<destinationPath>>))
        /\ outputChannel' = IF outcome = "success"
                            THEN Append(outputChannel, Line("", stdout))
                            ELSE outputChannel
        /\ pc' = IF outcome = "authFailure" THEN "awaitSetupGuide" ELSE "done"
        /\ UNCHANGED <<envVars, sideVars, installResult, runs, remoteName, uriList, rsyncOk, installChoice, sshTest,
                       sshChoice, preflight, destinationPath, execLog, channelVisible,
                       clipboard, opened>>

\* The user reacts to the authentication-failure notification.
SetupGuideChoice(selection) ==
    /\ pc = "awaitSetupGuide"
    /\ opened' = IF selection = "Setup Guide"
                 THEN Append(opened, "https://www.ssh.com/academy/ssh/keygen")
                 ELSE opened
    /\ pc' = "done"
    /\ UNCHANGED <<envVars, sideVars, installResult, runs, remoteName, uriList, rsyncOk, installChoice, sshTest,
                   sshChoice, preflight, destinationPath, execLog, failed, proc, messages,
                   outputChannel, channelVisible, clipboard>>

Next ==
    \/ \E hasSelection \in BOOLEAN, selectedUris \in Selections, fileUri \in Paths \cup {Undefined} :
          Invoke(hasSelection, selectedUris, fileUri)
    \/ \E error \in BOOLEAN, version \in VersionOutputs : RsyncProbeCallback(error, version)
    \/ \E choice \in Choices : InstallChoice(choice)
    \/ \E error \in BOOLEAN, stderr \in InstallStderrs : InstallCallback(error, stderr)
    \/ \E error \in BOOLEAN : SshProbeCallback(error)
    \/ \E choice \in Choices, localKeyExists \in BOOLEAN : SshChoice(choice, localKeyExists)
    \/ \E answer \in DestinationAnswers : DestinationAnswer(answer)
    \/ \E exit \in ExitCodes, stdout \in TransferStdouts, stderr \in TransferStderrs :
          TransferCallback(exit, stdout, stderr)
    \/ \E selection \in {"Setup Guide", Undefined} : SetupGuideChoice(selection)

\* ------------- the utility functions called on their own ------------- \*

\* Dotted-numeric version strings, as their number lists.
SegmentValues == {0, 1, 3, 9}
Versions == SeqsUpTo(SegmentValues, MaxSegments) \ {<<>>}

\* No invocation of the command; a pair of version strings to work on.
InitPure ==
    /\ platform = "linux"
    /\ folder = NoFolder
    /\ defaultDownloadLocation = Undefined
    /\ runs = 0
    /\ pc = "idle"
    /\ remoteName = <<>>
    /\ uriList = <<>>
    /\ rsyncOk = "unset"
    /\ installChoice = "unasked"
    /\ sshTest = "unset"
    /\ sshChoice = "unasked"
    /\ preflight = "pending"
    /\ destinationPath = Undefined
    /\ execLog = <<>>
    /\ failed = {}
    /\ proc = NoProc
    /\ installResult = NoInstall
    /\ messages = <<>>
    /\ outputChannel = <<>>
    /\ channelVisible = FALSE
    /\ clipboard = <<>>
    /\ opened = <<>>
    /\ current = 1
    /\ parked = IdleRun
    /\ \E a \in Versions, b \in Versions :
          call = [fn |-> "none", v1 |-> a, v2 |-> b, error |-> FALSE, result |-> 0]

\* compareVersions(v1, v2) is called.
CompareCall ==
    /\ call.fn = "none"
    /\ call' = [call EXCEPT !.fn = "compareVersions",
                            !.result = compareVersions(call.v1, call.v2)]
    /\ UNCHANGED <<envVars, runs, runVars, hostVars, current, parked>>

\* checkRsyncVersion(minVersion) is called and `rsync --version` ends with
\* error, printing version `printed` (result 1: resolved true).
ProbeCall(error, printed) ==
    /\ call.fn = "none"
    /\ call' = [fn |-> "checkRsyncVersion", v1 |-> printed, v2 |-> call.v2, error |-> error,
                result |-> IF checkRsyncVersion(error, printed, call.v2) THEN 1 ELSE 0]
    /\ UNCHANGED <<envVars, runs, runVars, hostVars, current, parked>>

NextPure ==
    \/ CompareCall
    \/ \E error \in BOOLEAN, printed \in {call.v1, NoVersionLine} : ProbeCall(error, printed)

SpecPure == InitPure /\ [][NextPure]_vars

Spec == Init /\ [][Next]_vars


\* ---------------------- observing an invocation --------------------- \*

\* How many times a kind of external command was started in this invocation.
Count(kind) == Cardinality({i \in 1..Len(execLog) : execLog[i].kind = kind})
Executed(kind) == Count(kind) > 0
Kinds == [i \in 1..Len(execLog) |-> execLog[i].kind]
CommandKinds == {"rsyncVersion", "install", "sshProbe", "transfer"}

IsPrefix(s, t) == Len(s) <= Len(t) /\ SubSeq(t, 1, Len(s)) = s

Shown(message) == \E i \in 1..Len(messages) : messages[i] = message
ShownLevel(level) == \E i \in 1..Len(messages) : messages[i].level = level
LastMessage == messages[Len(messages)]

WindowsMessage == Info("Windows is not supported by Fast Download.", <<>>)
RsyncRequired == Err("Environment check failed: ", <<"rsync is required for Fast Download.">>)
SshRequired == Err("Environment check failed: ", <<"Passwordless SSH is required for Fast Download.">>)
NoDestination == Err("No destination path provided.", <<>>)
AuthFailureMessage ==
    Err("Passwordless SSH authentication failed. Please re-check your SSH setup.", <<"Setup Guide">>)

\* The outcome notification of the transfer, read off the notifications.
TransferOutcome ==
    IF Shown(AuthFailureMessage) THEN "authFailure"
    ELSE IF \E i \in 1..Len(messages) : messages[i].text = "rsync failed: " THEN "genericFailure"
    ELSE IF \E i \in 1..Len(messages) : messages[i].text = "Download complete. Files saved to: "
         THEN "success"
    ELSE "none"

\* Every piece of text the output channel holds.
ChannelText == UNION {Range(outputChannel[i].data) : i \in 1..Len(outputChannel)}

\* The first word of every external command started.
Programs == {execLog[i].command[1] : i \in 1..Len(execLog)}

\* ------------------------------ claims ------------------------------ \*

\* C1: the transfer command is executed only if the preflight ended Ready,
\* that is the rsync probe reported sufficient or the user confirmed the
\* install and it succeeded, and the SSH probe returned true; after a
\* declined install, a failed install or a failed SSH probe no transfer
\* command is built or executed.
C1_TransferOnlyAfterReady ==
    /\ Executed("transfer") =>
          /\ preflight = "Ready"
          /\ \/ rsyncOk = "true"
             \/ installChoice = "Yes" /\ Executed("install") /\ "install" \notin failed
          /\ sshTest = "true"
    /\ ( \/ preflight = "Blocked"
         \/ installChoice \in {"No", Undefined}
         \/ "install" \in failed
         \/ sshTest = "false" ) => ~Executed("transfer")

C1_Witness == Executed("transfer") /\ installChoice = "Yes" /\ rsyncOk = "false"

\* C2: a completed transfer whose stderr contains "Permission denied" or
\* "Authentication failed" is reported as authFailure for every exit code,
\* 0 included.
C2_AuthFailurePrecedence ==
    ( /\ proc.done
      /\ \/ Includes(proc.stderr, "Permission denied")
         \/ Includes(proc.stderr, "Authentication failed") )
    => TransferOutcome = "authFailure"

\* C3: when the final outcome notification of a transfer is shown, all the
\* stdout and stderr text of the transfer process is in the output channel.
C3_AllOutputBeforeOutcome ==
    TransferOutcome # "none" =>
        \A part \in Range(proc.stdout) \cup Range(proc.stderr) : part \in ChannelText

\* C4: on win32 the command ends at once with the unsupported-platform
\* message and starts no subprocess at all.
C4_Win32NoSubprocess ==
    platform = "win32" =>
        /\ execLog = <<>>
        /\ pc \in {"idle", "done"}
        /\ runs > 0 => pc = "done" /\ messages = <<WindowsMessage>>

C4_Witness == platform = "win32" /\ runs > 0 /\ pc = "done"

\* C5: when the rsync probe is not sufficient and the user answers No or
\* dismisses the install prompt, the preflight ends Blocked with the reason
\* that rsync is required; no install, no SSH probe, no transfer command.
C5_DeclinedInstallBlocks ==
    (rsyncOk = "false" /\ installChoice \in {"No", Undefined}) =>
        /\ preflight = "Blocked"
        /\ pc = "done"
        /\ LastMessage = RsyncRequired
        /\ ~Executed("install")
        /\ ~Executed("sshProbe")
        /\ ~Executed("transfer")

C5_Witness == rsyncOk = "false" /\ installChoice = Undefined /\ preflight = "Blocked"

\* C6: the install command is executed only after the rsync probe reported
\* not sufficient and the user answered Yes to the install prompt in the
\* same invocation; never when the probe reported sufficient.
C6_InstallNeedsConfirmation ==
    /\ Executed("install") =>
          /\ rsyncOk = "false"
          /\ installChoice = "Yes"
          /\ Shown(Warn("rsync is missing or outdated. Install it now?", <<>>))
          /\ IsPrefix(<<"rsyncVersion", "install">>, Kinds)
    /\ rsyncOk = "true" => ~Executed("install") /\ installChoice = "unasked"

C6_Witness == Executed("install") /\ installChoice = "Yes"

\* C7: when the SSH probe returns false, the preflight ends Blocked with the
\* reason that passwordless SSH is required, whatever the answer to the
\* instructions prompt; it never ends Ready, and no key generation or key
\* installation command is executed.
C7_SshProbeFalseBlocks ==
    sshTest = "false" =>
        /\ preflight # "Ready"
        /\ ~Executed("transfer")
        /\ Programs \cap {<<"ssh-keygen">>, <<"ssh-copy-id">>} = {}
        /\ Kinds[Len(Kinds)] = "sshProbe"
        /\ IF sshChoice = "unasked"
           THEN pc = "awaitSshChoice" /\ preflight = "pending"
           ELSE pc = "done" /\ preflight = "Blocked" /\ LastMessage = SshRequired

C7_Witness == sshTest = "false" /\ sshChoice = "Yes" /\ preflight = "Blocked" /\ clipboard # <<>>

\* C8: when the rsync probe reports sufficient and the SSH probe returns
\* true, the preflight ends Ready after exactly one rsync version probe and
\* exactly one SSH probe, with no install command and no Yes/No prompt.
C8_ReadyInOnePass ==
    (rsyncOk = "true" /\ sshTest = "true") =>
        /\ preflight = "Ready"
        /\ Count("rsyncVersion") = 1
        /\ Count("sshProbe") = 1
        /\ ~Executed("install")
        /\ IsPrefix(<<"rsyncVersion", "sshProbe">>, Kinds)
        /\ ~ShownLevel("warning")
        /\ installChoice = "unasked" /\ sshChoice = "unasked"

C8_Witness == rsyncOk = "true" /\ sshTest = "true" /\ preflight = "Ready"

\* C9: after a Ready preflight, with no default destination configured, a
\* destination prompt that returns nothing (cancelled or empty) aborts with
\* "No destination path provided." and no transfer command is built; the
\* prompt is shown only when no non-empty default is configured and only
\* after the preflight ended Ready.
DestinationAsked == ShownLevel("input")

C9_NoDestinationAborts ==
    /\ ( /\ DestinationAsked
         /\ pc # "awaitDestination"
         /\ destinationPath \in {Undefined, ""} ) =>
          /\ pc = "done"
          /\ LastMessage = NoDestination
          /\ ~Executed("transfer")
    /\ DestinationAsked =>
          /\ defaultDownloadLocation \in {Undefined, ""}
          /\ preflight = "Ready"
    /\ (preflight = "Ready" /\ defaultDownloadLocation \in {Undefined, ""}) => DestinationAsked
    /\ Executed("transfer") => destinationPath \notin {Undefined, ""}

C9_Witness ==
    DestinationAsked /\ pc = "done" /\ destinationPath = "" /\ LastMessage = NoDestination

\* C10 as stated: every external command is executed at most once, and once
\* any of them has failed no external command is started any more in that
\* invocation.
C10_NothingStartedAfterFailure ==
    [][ /\ \A kind \in CommandKinds : Count(kind) <= 1
        /\ (failed # {} /\ runs' = runs) => execLog' = execLog ]_vars

\* C10 amended: every external command is executed at most once; after a
\* failed install, SSH probe or transfer no external command is started any
\* more; after a failed rsync version probe the probe is not run again and
\* the commands started are, in order, the confirmed install, the SSH probe
\* and the transfer.
C10_NoRetry ==
    /\ \A kind \in CommandKinds : Count(kind) <= 1
    /\ \A kind \in failed : Executed(kind)
    /\ \A kind \in failed \cap {"install", "sshProbe", "transfer"} :
          Kinds[Len(Kinds)] = kind
    /\ "rsyncVersion" \in failed =>
          /\ IsPrefix(Kinds, <<"rsyncVersion", "install", "sshProbe", "transfer">>)
          /\ Executed("install") => installChoice = "Yes"

C10_Witness ==
    /\ "rsyncVersion" \in failed
    /\ "transfer" \in failed
    /\ Kinds = <<"rsyncVersion", "install", "sshProbe", "transfer">>



\* C11: for a completed transfer whose stderr contains neither "Permission
\* denied" nor "Authentication failed", exit code 0 yields success (the
\* "Download complete" notification) and every other exit code yields
\* genericFailure carrying the process stderr; success is never reported
\* for a non-zero exit code.
NoAuthText(stderr) ==
    ~Includes(stderr, "Permission denied") /\ ~Includes(stderr, "Authentication failed")

C11_ExitCodeClassification ==
    /\ (proc.done /\ NoAuthText(proc.stderr)) =>
          IF proc.exit = 0
          THEN /\ TransferOutcome = "success"
               /\ LastMessage = Info("Download complete. Files saved to: ", <<destinationPath>>)
          ELSE /\ TransferOutcome = "genericFailure"
               /\ LastMessage = Err("rsync failed: ", proc.stderr)
    /\ (proc.done /\ proc.exit # 0) => TransferOutcome # "success"

C11_Witness ==
    /\ proc.done /\ proc.exit = 23 /\ proc.stderr = <<"rsync: link_stat failed">>
    /\ TransferOutcome = "genericFailure"


\* The sign of the lexicographic comparison of two number lists after
\* padding the shorter with zeros.
Pad(v, n) == [i \in 1..n |-> IF i <= Len(v) THEN v[i] ELSE 0]

LexSign(a, b) ==
    LET n == IF Len(a) >= Len(b) THEN Len(a) ELSE Len(b)
        pa == Pad(a, n)
        pb == Pad(b, n)
    IN  IF pa = pb THEN 0
        ELSE LET k == CHOOSE i \in 1..n : pa[i] # pb[i] /\ \A j \in 1..(i - 1) : pa[j] = pb[j]
             IN  IF pa[k] > pb[k] THEN 1 ELSE -1

\* C12: for all dotted-numeric version strings A and B, of equal or unequal
\* segment counts, compareVersions(A, B) is the sign of the lexicographic
\* comparison of the zero-padded number lists; so compare(A, B) is
\* -compare(B, A), compare(A, A) is 0, compare("3.0", "3.0.0") is 0 and
\* compare("3.1.0", "3.0.9") is 1.
C12_CompareIsPaddedLexSign ==
    call.fn = "compareVersions" =>
        /\ call.result = LexSign(call.v1, call.v2)
        /\ call.result = 0 - compareVersions(call.v2, call.v1)
        /\ call.v1 = call.v2 => call.result = 0
        /\ (call.v1 = <<3, 0>> /\ call.v2 = <<3, 0, 0>>) => call.result = 0
        /\ (call.v1 = <<3, 1, 0>> /\ call.v2 = <<3, 0, 9>>) => call.result = 1

C12_Witness ==
    call.fn = "compareVersions" /\ call.v1 = <<3, 0>> /\ call.v2 = <<3, 0, 0>> /\ call.result = 0

\* C16: the rsync version probe reports the tool usable exactly when the
\* version invocation ran without error, its output matched the version
\* pattern (three numeric segments) and the parsed version is not below the
\* minimum; a failed invocation or an unparsable output reports not usable
\* whatever the installed version.
C16_ProbeUsableExactlyWhen ==
    call.fn = "checkRsyncVersion" =>
        /\ call.result = 1 <=>
              /\ ~call.error
              /\ Len(call.v1) >= 3
              /\ LexSign(SubSeq(call.v1, 1, 3), call.v2) >= 0
        /\ (call.error \/ Len(call.v1) < 3) => call.result = 0

C16_Witness ==
    /\ call.fn = "checkRsyncVersion"
    /\ call.v1 = <<3, 0, 0>> /\ call.v2 = <<3, 0, 0>>
    /\ call.result = 1


\* C14: where the workflow asks for the destination (step 5), and whenever
\* a transfer is launched, both preconditions have been verified by a probe
\* of this invocation: the rsync version probe returned true (installed and
\* at least 3.0.0) and the passwordless-SSH probe returned true.
C14_BothProbesPassedAtStep5 ==
    (preflight = "Ready" \/ DestinationAsked \/ Executed("transfer")) =>
        rsyncOk = "true" /\ sshTest = "true"


\* An external command whose callback has fired, and the commands running.
Completed(kind) ==
    CASE kind = "rsyncVersion" -> rsyncOk # "unset"
      [] kind = "install" -> installResult.done
      [] kind = "sshProbe" -> sshTest # "unset"
      [] kind = "transfer" -> proc.done

Running == {kind \in CommandKinds : Executed(kind) /\ ~Completed(kind)}

\* C15: within one invocation the external steps run strictly one after the
\* other: the SSH probe starts only after the tool check has concluded
\* (probe sufficient, or install finished successfully), the transfer starts
\* only after the SSH probe has returned, and never are two external
\* processes of the invocation running at once.
C15_StrictlySequential ==
    /\ Cardinality(Running) <= 1
    /\ Executed("sshProbe") =>
          /\ Completed("rsyncVersion")
          /\ \/ rsyncOk = "true"
             \/ Executed("install") /\ installResult.done /\ ~installResult.error
    /\ Executed("install") => Completed("rsyncVersion")
    /\ Executed("transfer") => Completed("sshProbe") /\ sshTest = "true"

C15_Witness ==
    /\ Running = {"transfer"}
    /\ Kinds = <<"rsyncVersion", "install", "sshProbe", "transfer">>


\* The transfer commands started in this invocation.
TransferCommands == {execLog[i].command : i \in {j \in 1..Len(execLog) : execLog[j].kind = "transfer"}}

\* C17: the transfer command lists the selected targets as a non-empty
\* sequence of the same length and order as the selection, duplicates kept,
\* each path prefixed with the remote identity and ':' and quoted on its
\* own, and names the quoted destination as its last token; an empty
\* selection never produces a transfer command.
C17_TargetsInSelectionOrder ==
    /\ \A command \in TransferCommands :
          LET n == Len(uriList)
          IN  /\ n >= 1
              /\ Len(command) = 5 + n + 1
              /\ SubSeq(command, 1, 4) = << <<"rsync">>, <<"-P">>, <<"-avz">>, <<"-e">> >>
              /\ \A i \in 1..n :
                    command[5 + i] = <<"\"">> \o remoteName \o <<":", uriList[i], "\"">>
              /\ command[Len(command)] = <<"\"", destinationPath, "\"">>
              /\ remoteName # <<>>
    /\ uriList = <<>> => TransferCommands = {}

C17_Witness ==
    /\ TransferCommands # {}
    /\ uriList = <<"/a/c d", "/a/b">>


\* The install commands started in this invocation.
InstallCommands == {execLog[i].command : i \in {j \in 1..Len(execLog) : execLog[j].kind = "install"}}

\* C18: on a platform that is neither darwin nor linux installRsync fails
\* with the unsupported-platform error without executing a command, and the
\* preflight ends Blocked; on darwin and linux exactly one install command,
\* the platform's own, is executed, and its failure is reported with the
\* command's stderr.
C18_InstallByPlatform ==
    /\ (installChoice = "Yes" /\ platform \notin {"darwin", "linux"}) =>
          /\ ~Executed("install")
          /\ Kinds = <<"rsyncVersion">>
          /\ Shown(Err("Unsupported OS for automatic rsync installation.", <<>>))
          /\ LastMessage = Err("Environment check failed: ", <<"rsync installation failed.">>)
          /\ preflight = "Blocked"
          /\ pc = "done"
    /\ (installChoice = "Yes" /\ platform = "darwin") =>
          /\ Count("install") = 1
          /\ InstallCommands = { << <<"brew">>, <<"install">>, <<"rsync">> >> }
    /\ (installChoice = "Yes" /\ platform = "linux") =>
          /\ Count("install") = 1
          /\ InstallCommands = { << <<"sudo">>, <<"apt-get">>, <<"install">>, <<"-y">>, <<"rsync">> >> }
    /\ (installResult.done /\ installResult.error) =>
          /\ Shown(Err("Failed to install rsync: ", installResult.stderr))
          /\ LastMessage = Err("Environment check failed: ", <<"rsync installation failed.">>)
          /\ preflight = "Blocked"
          /\ pc = "done"

C18_Witness ==
    /\ platform = "freebsd"
    /\ installChoice = "Yes"
    /\ preflight = "Blocked"


\* The workspace folders of a Remote-SSH window whose authority names a host.
SshFolders ==
    { f \in Folders : /\ f.scheme = "vscode-remote"
                      /\ f.authority \in { <<"ssh-remote+", "user@host">>,
                                           <<"ssh-remote%2B", "user@host">> } }

\* C19: the input validation precedes all external work: with no remote
\* workspace folder, or an authority from which the ssh-remote+ pattern
\* extracts no remote identity, or an empty list of targets, the invocation
\* ends with an error message, and no subprocess and no preflight prompt is
\* ever executed in it.
C19_ValidationBeforeExternalWork ==
    (runs > 0 /\ (folder \notin SshFolders \/ uriList = <<>>)) =>
        /\ pc = "done"
        /\ execLog = <<>>
        /\ ~ShownLevel("warning")
        /\ ~ShownLevel("input")
        /\ preflight = "pending"
        /\ Len(messages) = 1
        /\ platform # "win32" =>
              messages[1] =
                 IF folder.scheme # "vscode-remote"
                 THEN Err("No remote SSH workspace detected.", <<>>)
                 ELSE IF folder \notin SshFolders
                 THEN Err("Could not determine remote host.", <<>>)
                 ELSE Err("No files to download.", <<>>)

C19_Witness ==
    /\ runs > 0
    /\ platform = "linux"
    /\ folder \in SshFolders
    /\ uriList = <<>>
    /\ messages = <<Err("No files to download.", <<>>)>>


\* Where the handler waits for a callback or an answer before its outcome.
AwaitPoints ==
    {"awaitRsyncProbe", "awaitInstallChoice", "awaitInstall", "awaitSshProbe",
     "awaitSshChoice", "awaitDestination", "awaitTransfer"}

\* The notifications that end an invocation.
OutcomeTexts ==
    {"Windows is not supported by Fast Download.",
     "No remote SSH workspace detected.",
     "Could not determine remote host.",
     "No files to download.",
     "Environment check failed: ",
     "No destination path provided.",
     "Download complete. Files saved to: ",
     "rsync failed: ",
     "Passwordless SSH authentication failed. Please re-check your SSH setup."}

TransferOutcomeTexts ==
    {"Download complete. Files saved to: ",
     "rsync failed: ",
     "Passwordless SSH authentication failed. Please re-check your SSH setup."}

TransferOutcomesShown ==
    Cardinality({i \in 1..Len(messages) : messages[i].text \in TransferOutcomeTexts})

\* C20: when every callback has fired and every prompt is answered, the
\* invocation has reached a terminal outcome (blocked or aborted with a
\* message, download complete, authentication failure or generic failure),
\* and a launched transfer that finished has produced exactly one of the
\* three transfer outcomes.
C20_EndsInOneOutcome ==
    /\ (runs > 0 /\ pc \notin AwaitPoints) =>
          /\ messages # <<>>
          /\ LastMessage.text \in OutcomeTexts
    /\ proc.done => TransferOutcomesShown = 1
    /\ ~proc.done => TransferOutcomesShown = 0


\* ---------------------- two invocations at once --------------------- \*

\* The locals of the invocation that is running.
RunState ==
    [runs |-> runs, pc |-> pc, remoteName |-> remoteName, uriList |-> uriList,
     rsyncOk |-> rsyncOk, installChoice |-> installChoice, sshTest |-> sshTest,
     sshChoice |-> sshChoice, preflight |-> preflight, destinationPath |-> destinationPath,
     execLog |-> execLog, failed |-> failed, proc |-> proc,
     installResult |-> installResult, messages |-> messages]

\* While one invocation waits at an await, the event loop runs the other:
\* a second command invocation, or the callback the other one waits for.
\* The output channel, created once in activate, is the same for both.
Switch ==
    /\ pc # "idle"
    /\ parked.pc \notin {"done", "threw"}
    /\ parked.pc = "idle" => pc \in AwaitPoints
    /\ parked' = RunState
    /\ current' = 3 - current
    /\ runs' = parked.runs
    /\ pc' = parked.pc
    /\ remoteName' = parked.remoteName
    /\ uriList' = parked.uriList
    /\ rsyncOk' = parked.rsyncOk
    /\ installChoice' = parked.installChoice
    /\ sshTest' = parked.sshTest
    /\ sshChoice' = parked.sshChoice
    /\ preflight' = parked.preflight
    /\ destinationPath' = parked.destinationPath
    /\ execLog' = parked.execLog
    /\ failed' = parked.failed
    /\ proc' = parked.proc
    /\ installResult' = parked.installResult
    /\ messages' = parked.messages
    /\ UNCHANGED <<envVars, hostVars, call>>

\* A Remote-SSH window on Linux with no default download location.
InitOverlap ==
    /\ Init
    /\ platform = "linux"
    /\ folder = [scheme |-> "vscode-remote", authority |-> <<"ssh-remote+", "user@host">>]
    /\ defaultDownloadLocation = Undefined

\* Each of the two is one call of the handler, on at most one target.
NextOverlap ==
    \/ Next /\ runs' <= 1 /\ Len(uriList') <= 1
    \/ Switch

SpecOverlap == InitOverlap /\ [][NextOverlap]_vars

\* The lines of the channel written by the invocation that is not running.
OtherLines(channel) == SelectSeq(channel, LAMBDA line : line.by # current)

\* C13: no mutable resource is shared between invocations: when two
\* invocations overlap, no step of one changes or removes the reporter
\* output produced by the other.
C13_OutputOfOtherUntouched ==
    [][current' = current => OtherLines(outputChannel') = OtherLines(outputChannel)]_vars

====
